---- MODULE Spec2Model ----
(***************************************************************************)
(* Model of the SAJ MQTT inverter client                                   *)
(* (custom_components/saj_mqtt/sajmqtt.py): the request/response frame     *)
(* codec, the pending-response maps read_responses / write_responses, the  *)
(* inbound handler _handle_data_transmission_rsp and the two orchestrator  *)
(* coroutines read_registers / write_register, each cut at its awaits.     *)
(*                                                                         *)
(* Environment: the inverter answers every request frame that was handed   *)
(* to the transport; an answer may be lost, duplicated, delayed past the   *)
(* end of the call, reordered, or damaged on the way.                      *)
(***************************************************************************)
EXTENDS Integers, Sequences, FiniteSets, TLC

(***************************************************************************)
(* Bounds of the model                                                     *)
(***************************************************************************)
\* correlation ids are drawn from 0..MaxReqId (the code draws from 0..65535)
MaxReqId == 1
\* a read is planned into at most MaxChunks packets
MaxChunks == 2

(***************************************************************************)
(* Program constants (custom_components/saj_mqtt/const.py)                 *)
(***************************************************************************)
MODBUS_MAX_REGISTERS_PER_QUERY == 100
\* "Absolute max is 123 (0x7b)": the most registers one modbus frame can ask for
MODBUS_ABSOLUTE_MAX_REGISTERS == 123
MODBUS_DEVICE_ADDRESS == 1
MODBUS_READ_REQUEST == 3
MODBUS_WRITE_REQUEST == 6
MODBUS_REG_APP_MODE == 12871

\* two orchestrator calls (tasks) that may overlap on one SajMqtt instance
Calls == {1, 2}
ReqIds == 0..MaxReqId

(***************************************************************************)
(* Bytes, struct.pack / struct.unpack_from                                 *)
(***************************************************************************)
Byte == 0..255

\* pack(">H", v)
PackU16(v) == << (v \div 256) % 256, v % 256 >>

\* unpack_from(">H", p, off): p is 1-indexed, off is the 0-based byte offset
U16At(p, off) == p[off + 1] * 256 + p[off + 2]

\* unpack_from(">B", p, off)
U8At(p, off) == p[off + 1]

\* p[a:b] (python slice, 0-based, clipped to the buffer)
Slice(p, a, b) ==
    LET hi == IF b < Len(p) THEN b ELSE Len(p)
    IN  IF a >= hi THEN << >> ELSE [i \in 1..(hi - a) |-> p[a + i]]

(***************************************************************************)
(* pymodbus.utilities.computeCRC: CRC-16/MODBUS (poly 0xA001, init 0xFFFF) *)
(* with the two result bytes swapped, so that pack(">H", crc) puts the low *)
(* CRC byte first on the wire.                                             *)
(***************************************************************************)
\* bit i of a
Bit(a, i) == (a \div (2 ^ i)) % 2

\* bit i of a ^ b, in place
XorBit(a, b, i) == ((Bit(a, i) + Bit(b, i)) % 2) * (2 ^ i)

\* a ^ b on 16-bit values
Xor(a, b) ==
    XorBit(a, b, 0) + XorBit(a, b, 1) + XorBit(a, b, 2) + XorBit(a, b, 3)
    + XorBit(a, b, 4) + XorBit(a, b, 5) + XorBit(a, b, 6) + XorBit(a, b, 7)
    + XorBit(a, b, 8) + XorBit(a, b, 9) + XorBit(a, b, 10) + XorBit(a, b, 11)
    + XorBit(a, b, 12) + XorBit(a, b, 13) + XorBit(a, b, 14) + XorBit(a, b, 15)

\* one bit of the CRC register shifted out
CrcShift1(crc) ==
    CHOOSE r \in {IF v % 2 = 1 THEN Xor(v \div 2, 40961) ELSE v \div 2 : v \in {crc}} : TRUE

\* the 256-entry table of the byte-wise CRC: eight shifts of the index
CrcTable ==
    [i \in 0..255 |->
        CrcShift1(CrcShift1(CrcShift1(CrcShift1(
        CrcShift1(CrcShift1(CrcShift1(CrcShift1(i))))))))]

\* crc = ((crc >> 8) & 0xff) ^ table[(crc ^ byte) & 0xff]
CrcStep(crc, byte) ==
    CHOOSE r \in {Xor(v \div 256, CrcTable[Xor(v % 256, b)]) : v \in {crc}, b \in {byte}} : TRUE

RECURSIVE CrcBytes(_, _)
CrcBytes(crc, buf) ==
    IF buf = << >> THEN crc
    ELSE CHOOSE r \in {CrcBytes(v, t) : v \in {CrcStep(crc, Head(buf))},
                                        t \in {Tail(buf)}} : TRUE

computeCRC(buf) ==
    CHOOSE r \in {(crc % 256) * 256 + (crc \div 256) : crc \in {CrcBytes(65535, buf)}} : TRUE

(***************************************************************************)
(* Values held by a pending slot and returned by the orchestrators:        *)
(* None, a bytes object (read content) or an int (echoed write value).     *)
(***************************************************************************)
None == [t |-> "none", b |-> << >>, n |-> 0]
BytesVal(bs) == [t |-> "bytes", b |-> bs, n |-> 0]
IntVal(v) == [t |-> "int", b |-> << >>, n |-> v]

\* python truthiness, as used by all(responses.values())
Truthy(v) ==
    CASE v.t = "none" -> FALSE
      [] v.t = "bytes" -> Len(v.b) > 0
      [] v.t = "int" -> v.n # 0

(***************************************************************************)
(* Request frames                                                          *)
(***************************************************************************)
\* variant: the CRC is computed over the header and the content
CreateModbusMqttPacketCrcOverAll(content, req_id, rand) ==
    LET head == PackU16(req_id) \o << 88, 201 >> \o PackU16(rand) \o content
        packet == head \o PackU16(computeCRC(head))
    IN  [packet |-> PackU16(Len(packet)) \o packet, req_id |-> req_id]

\* _create_modbus_mqtt_packet with its two random draws made explicit
CreateModbusMqttPacket(content, req_id, rand) ==
    LET crc16 == computeCRC(content)
        packet == PackU16(req_id) \o << 88, 201 >> \o PackU16(rand)
                    \o content \o PackU16(crc16)
    IN  [packet |-> PackU16(Len(packet)) \o packet, req_id |-> req_id]

\* _create_mqtt_read_packet
CreateMqttReadPacket(start, count, req_id, rand) ==
    CreateModbusMqttPacket(
        << MODBUS_DEVICE_ADDRESS, MODBUS_READ_REQUEST >> \o PackU16(start) \o PackU16(count),
        req_id, rand)

\* variant: the value is packed low byte first
CreateMqttWritePacketLittleEndian(register, value, req_id, rand) ==
    CreateModbusMqttPacket(
        << MODBUS_DEVICE_ADDRESS, MODBUS_WRITE_REQUEST >> \o PackU16(register)
            \o << value % 256, (value \div 256) % 256 >>,
        req_id, rand)

\* _create_mqtt_write_packet
CreateMqttWritePacket(register, value, req_id, rand) ==
    CreateModbusMqttPacket(
        << MODBUS_DEVICE_ADDRESS, MODBUS_WRITE_REQUEST >> \o PackU16(register) \o PackU16(value),
        req_id, rand)

(***************************************************************************)
(* Response frames: _parse_packet and its two body parsers.  A parser      *)
(* either returns a value or raises (struct.error on a short buffer,       *)
(* ValueError on a bad CRC or an unsupported request type).                *)
(***************************************************************************)
Raised(what) == [ok |-> FALSE, err |-> what, req_id |-> 0, content |-> None]
Returned(id, v) == [ok |-> TRUE, err |-> "", req_id |-> id, content |-> v]

\* crc16 != calc_crc, the test both body parsers make
\* variant: the comparison of the two CRCs is left out
CrcMismatchIgnored(crc16, calc_crc) == FALSE

CrcMismatch(crc16, calc_crc) == crc16 # calc_crc

\* _parse_read_packet
ParseReadPacket(packet) ==
    IF Len(packet) < 11 THEN Raised("struct.error")
    ELSE LET size == U8At(packet, 10)
             content == Slice(packet, 11, 11 + size)
         IN  IF Len(packet) < 11 + size + 2 THEN Raised("struct.error")
             ELSE IF CrcMismatch(U16At(packet, 11 + size),
                                 computeCRC(Slice(packet, 8, 11 + size)))
                  THEN Raised("ValueError")
                  ELSE Returned(U16At(packet, 2), BytesVal(content))

\* variant: the CRC is compared only when the buffer holds it
ParseWritePacketCrcOptional(packet) ==
    IF Len(packet) < 14 THEN Raised("struct.error")
    ELSE IF Len(packet) >= 16
              /\ CrcMismatch(U16At(packet, 14), computeCRC(Slice(packet, 8, 14)))
         THEN Raised("ValueError")
         ELSE Returned(U16At(packet, 2), IntVal(U16At(packet, 12)))

\* _parse_write_packet
ParseWritePacket(packet) ==
    IF Len(packet) < 16 THEN Raised("struct.error")
    ELSE LET value == U16At(packet, 12)
         IN  IF CrcMismatch(U16At(packet, 14), computeCRC(Slice(packet, 8, 14)))
             THEN Raised("ValueError")
             ELSE Returned(U16At(packet, 2), IntVal(value))

\* _parse_packet
\* variant: a kind that is not a write is taken for a read
ParsePacketDefaultsToRead(packet) ==
    IF Len(packet) < 10 THEN Raised("struct.error")
    ELSE IF U16At(packet, 8) - 256 = MODBUS_WRITE_REQUEST
         THEN ParseWritePacket(packet)
         ELSE ParseReadPacket(packet)

ParsePacket(packet) ==
    IF Len(packet) < 10 THEN Raised("struct.error")
    ELSE LET req_type == U16At(packet, 8) - 256
         IN  IF req_type = MODBUS_READ_REQUEST THEN ParseReadPacket(packet)
             ELSE IF req_type = MODBUS_WRITE_REQUEST THEN ParseWritePacket(packet)
             ELSE Raised("ValueError")

(***************************************************************************)
(* The inverter (environment).  It answers a request frame with a frame    *)
(* carrying the request's correlation id and 0x100 + the request's         *)
(* function code.  A read answer carries register content; the model's     *)
(* inverter sends only the first register of the range (the client never   *)
(* compares the size of an answer with the count it asked for).  A write   *)
(* answer echoes register and value.                                       *)
(***************************************************************************)
\* seconds since the epoch, as sent by the inverter; the client only logs it
DeviceTimestamp == << 101, 67, 33, 0 >>

DeviceContent(start, count) == IF count = 0 THEN << >> ELSE PackU16(start)

DeviceFrame(req_id, function, body) ==
    LET covered == << 1, function >> \o body
        rest == PackU16(req_id) \o DeviceTimestamp \o covered \o PackU16(computeCRC(covered))
    IN  PackU16(Len(rest)) \o rest

DeviceResponse(request) ==
    LET req_id == U16At(request, 2)
        function == U8At(request, 9)
        p1 == U16At(request, 10)
        p2 == U16At(request, 12)
    IN  IF function = MODBUS_READ_REQUEST
        THEN LET content == DeviceContent(p1, p2)
             IN  DeviceFrame(req_id, function, << Len(content) >> \o content)
        ELSE DeviceFrame(req_id, function, PackU16(p1) \o PackU16(p2))

\* how the frame that reaches the client may differ from the regular answer: damaged
\* on its way (badcrc, short, badkind), or sent by the inverter without any register
\* content (empty)
Damages == {"intact", "badcrc", "short", "badkind", "empty"}

\* the answer to a read with size 0 and a valid CRC; the answer to a write has no
\* size field and stays as it is
EmptyAnswer(frame) ==
    IF U8At(frame, 9) = MODBUS_READ_REQUEST
    THEN DeviceFrame(U16At(frame, 2), MODBUS_READ_REQUEST, << 0 >>)
    ELSE frame

\* a frame like the given one, of a kind that is neither read nor write (function
\* 0x04), its CRC computed over the changed bytes
OtherKind(frame) ==
    LET head == [SubSeq(frame, 1, Len(frame) - 2) EXCEPT ![10] = 4]
    IN  head \o PackU16(computeCRC(Slice(head, 8, Len(head))))

Damage(frame, how) ==
    CASE how = "intact" -> frame
      [] how = "badcrc" -> [frame EXCEPT ![Len(frame)] = (@ + 1) % 256]
      [] how = "short" -> SubSeq(frame, 1, Len(frame) - 1)
      [] how = "badkind" -> OtherKind(frame)
      [] how = "empty" -> EmptyAnswer(frame)

(***************************************************************************)
(* Inputs of the calls                                                     *)
(***************************************************************************)
\* the register range each caller reads (realtime data at 0x4000, inverter info at
\* 0x8F00), with counts that plan into 0..MaxChunks packets
ReadStart == << 16384, 36608 >>
ReadStarts == {ReadStart[c] : c \in Calls}
ReadCounts == {0} \cup {(n - 1) * MODBUS_MAX_REGISTERS_PER_QUERY + 1 : n \in 1..MaxChunks}
WriteValues == {0, 3}
\* the random filler of a request frame; nothing ever reads it back
Fillers == {4660}

\* variant: no cap, one packet asks for all the registers
RegCountUncapped(register_count, cap) == register_count

\* variant: every packet asks for cap registers, the last one too
RegCountAlwaysCap(register_count, cap) == cap

\* reg_count = min(register_count, MODBUS_MAX_REGISTERS_PER_QUERY)
RegCount(register_count, cap) == IF register_count < cap THEN register_count ELSE cap

\* read_registers, the planning loop run with a given cap: the (start, count) of
\* each packet
RECURSIVE PlanWithCap(_, _, _)
PlanWithCap(register_start, register_count, cap) ==
    IF register_count > 0
    THEN LET reg_count == RegCount(register_count, cap)
         IN  << << register_start, reg_count >> >>
               \o PlanWithCap(register_start + reg_count, register_count - reg_count, cap)
    ELSE << >>

\* read_registers, the planning loop
PlanRead(register_start, register_count) ==
    PlanWithCap(register_start, register_count, MODBUS_MAX_REGISTERS_PER_QUERY)

(***************************************************************************)
(* State                                                                   *)
(***************************************************************************)
VARIABLES
    pc,               \* where each call is: idle, publishing (awaiting async_publish),
                      \* sleep (awaiting asyncio.sleep), done
    args,             \* the arguments of each call
    packets,          \* read_registers: packets, write_register: <<(packet, req_id)>>
    req_ids,          \* the ids the call has registered so far, in order
    published,        \* the frames each call has handed to mqtt.async_publish, in order
    read_responses,   \* SajMqtt.read_responses: req_id -> None | content
    write_responses,  \* SajMqtt.write_responses: req_id -> None | content
    data,             \* the value each finished call returned
    parts,            \* read_registers: responses.values() as concatenated into data
    arrived,          \* history: the packets of each call whose own intact answer was
                      \* handled while the call was in progress
    earlier,          \* history: the calls that had ended when each call began
    handler_raised,   \* an exception has left _handle_data_transmission_rsp
    fn,               \* a function of the client applied on its own: its name, its
                      \* arguments and, once applied, its result
    outcome,          \* how each call ended: returned, timeout, publish_error, or an
                      \* exception that left the coroutine (TypeError, KeyError)
    setup,            \* async_setup of the integration: where it is and what it has made
    coord,            \* SajMqttCoordinator: its four fields and its update cycle
    legacy            \* the legacy client (custom_components/sajmqtt.py): its responses
                      \* map and its queries

vars == << pc, args, packets, req_ids, published, read_responses, write_responses,
           data, parts, arrived, earlier, handler_raised, fn, outcome, setup, coord,
           legacy >>

\* what lies around the client
nonClient == << setup, coord, legacy >>

NoArgs == [op |-> "none", a |-> 0, b |-> 0]
NoFn == [name |-> "none", in |-> << >>, out |-> << >>, applied |-> FALSE]

\* the client after __init__, no call made yet
InitClient ==
    /\ pc = [c \in Calls |-> "idle"]
    /\ args = [c \in Calls |-> NoArgs]
    /\ packets = [c \in Calls |-> << >>]
    /\ req_ids = [c \in Calls |-> << >>]
    /\ published = [c \in Calls |-> << >>]
    /\ read_responses = << >>
    /\ write_responses = << >>
    /\ data = [c \in Calls |-> None]
    /\ parts = [c \in Calls |-> << >>]
    /\ arrived = [c \in Calls |-> {}]
    /\ earlier = [c \in Calls |-> {}]
    /\ handler_raised = FALSE
    /\ outcome = [c \in Calls |-> "running"]

\* the coordinators async_setup creates: the realtime one always, the others when
\* their scan interval is configured
OptionalCoordinators == {"inverter_info", "battery_info", "battery_controller", "config"}

\* async_setup has returned True with every scan interval configured
SetupComplete ==
    [pc |-> "done", configured |-> TRUE, intervals |-> OptionalCoordinators,
     subscribed |-> TRUE, sajmqtt |-> TRUE,
     coordinators |-> {"realtime"} \cup OptionalCoordinators,
     services |-> TRUE, platforms |-> TRUE]

\* SajMqttCoordinator after __init__: nothing fetched, no update running
NoCoord ==
    [pc |-> "idle", inverter_info |-> None, battery_info |-> None,
     battery_controller_data |-> None, realtime_data |-> None,
     requested |-> << >>, in_flight |-> {}, cycles |-> 0, none_at_start |-> {}]

\* the legacy client after __init__: no response expected, no query made
NoLegacy ==
    [responses |-> << >>,
     pc |-> [q \in Calls |-> "idle"],
     count |-> [q \in Calls |-> 0],
     packets |-> [q \in Calls |-> << >>],
     published |-> [q \in Calls |-> << >>],
     parts |-> [q \in Calls |-> << >>],
     data |-> [q \in Calls |-> None],
     outcome |-> [q \in Calls |-> "running"]]

\* the integration is set up, its coordinator and the legacy client are untouched
InitAround ==
    /\ setup = SetupComplete
    /\ coord = NoCoord
    /\ legacy = NoLegacy

Init ==
    /\ InitClient
    /\ fn = NoFn
    /\ InitAround

(***************************************************************************)
(* dict helpers                                                            *)
(***************************************************************************)
\* d[k] = v
DictSet(d, k, v) == [x \in DOMAIN d \cup {k} |-> IF x = k THEN v ELSE d[x]]

\* for k in ks: with suppress(KeyError): del d[k]
DictDel(d, ks) == [x \in DOMAIN d \ ks |-> d[x]]

Range(s) == {s[i] : i \in DOMAIN s}

\* the keys of OrderedDict((k, d[k]) for k in ids if k in d), in order
RECURSIVE ResponseKeys(_, _, _)
ResponseKeys(ids, d, seen) ==
    IF ids = << >> THEN << >>
    ELSE IF Head(ids) \in DOMAIN d /\ Head(ids) \notin seen
         THEN << Head(ids) >> \o ResponseKeys(Tail(ids), d, seen \cup {Head(ids)})
         ELSE ResponseKeys(Tail(ids), d, seen)

RECURSIVE ConcatBytes(_, _)
ConcatBytes(keys, d) ==
    IF keys = << >> THEN << >> ELSE d[Head(keys)].b \o ConcatBytes(Tail(keys), d)

(***************************************************************************)
(* read_registers / write_register, one action per stretch between awaits  *)
(***************************************************************************)
\* the map a call of this kind registers its ids in
IsRead(c) == args[c].op = "read"

\* the code after the try block: remove the call's ids, return data
\* variant: the cleanup clears the whole map instead of the ids of the call
CleanupWholeMap(isread, ids) ==
    IF isread
    THEN /\ read_responses' = << >>
         /\ UNCHANGED write_responses
    ELSE /\ write_responses' = << >>
         /\ UNCHANGED read_responses

Cleanup(isread, ids) ==
    IF isread
    THEN /\ read_responses' = DictDel(read_responses, Range(ids))
         /\ UNCHANGED write_responses
    ELSE /\ write_responses' = DictDel(write_responses, Range(ids))
         /\ UNCHANGED read_responses

Return(c, isread, ids, value, how) ==
    /\ Cleanup(isread, ids)
    /\ pc' = [pc EXCEPT ![c] = "done"]
    /\ data' = [data EXCEPT ![c] = value]
    /\ outcome' = [outcome EXCEPT ![c] = how]
    /\ UNCHANGED arrived

\* an exception no except clause catches: the coroutine ends, the cleanup is skipped
Propagate(c, what) ==
    /\ pc' = [pc EXCEPT ![c] = "done"]
    /\ outcome' = [outcome EXCEPT ![c] = what]
    /\ UNCHANGED << data, parts, arrived, read_responses, write_responses >>

GoSleep(c) ==
    /\ pc' = [pc EXCEPT ![c] = "sleep"]
    /\ UNCHANGED << data, parts, arrived, outcome, read_responses, write_responses >>

\* the values of responses, in order
ResponseValues(keys, d) == [i \in DOMAIN keys |-> d[keys[i]]]

\* read_registers: all(responses.values()) is True
AllResponses(keys, d) == \A i \in DOMAIN keys : Truthy(d[keys[i]])

\* read_registers, one turn of the wait loop
ReadPoll(c) ==
    LET keys == ResponseKeys(req_ids[c], read_responses, {})
    IN  IF AllResponses(keys, read_responses)
        THEN IF \E i \in DOMAIN keys : read_responses[keys[i]].t = "int"
             THEN Propagate(c, "TypeError")
             ELSE /\ Return(c, TRUE, req_ids[c],
                            BytesVal(ConcatBytes(keys, read_responses)), "returned")
                  /\ parts' = [parts EXCEPT ![c] = ResponseValues(keys, read_responses)]
        ELSE IF \E i \in DOMAIN req_ids[c] : req_ids[c][i] \notin Range(keys)
             THEN Propagate(c, "KeyError")
             ELSE GoSleep(c)

\* variant: the wait loop of write_register tests the truth value of the slot
WriteArrivedIfTruthy(v) == Truthy(v)

\* write_register: self.write_responses[req_id] is not None
WriteArrived(v) == v # None

\* write_register, one turn of the wait loop
WritePoll(c) ==
    LET req_id == req_ids[c][1]
    IN  IF req_id \notin DOMAIN write_responses
        THEN Propagate(c, "KeyError")
        ELSE IF WriteArrived(write_responses[req_id])
             THEN /\ Return(c, FALSE, req_ids[c], write_responses[req_id], "returned")
                  /\ UNCHANGED parts
             ELSE GoSleep(c)

Poll(c) == IF IsRead(c) THEN ReadPoll(c) ELSE WritePoll(c)

(***************************************************************************)
(* Frames of the model, computed once                                      *)
(***************************************************************************)
ReadPlans == {PlanRead(s, n) : s \in ReadStarts, n \in ReadCounts}
ReadChunks == UNION {Range(pl) : pl \in ReadPlans}

RequestFrames ==
    {CreateMqttReadPacket(ch[1], ch[2], id, rand).packet :
        ch \in ReadChunks, id \in ReqIds, rand \in Fillers}
    \cup {CreateMqttWritePacket(MODBUS_REG_APP_MODE, v, id, rand).packet :
        v \in WriteValues, id \in ReqIds, rand \in Fillers}

ReadPacketOf == [ch \in ReadChunks, id \in ReqIds, rand \in Fillers |->
                    CreateMqttReadPacket(ch[1], ch[2], id, rand)]
WritePacketOf == [v \in WriteValues, id \in ReqIds, rand \in Fillers |->
                    CreateMqttWritePacket(MODBUS_REG_APP_MODE, v, id, rand)]

\* the frame that reaches the client when the inverter answers request r
InboundOf == [r \in RequestFrames, how \in Damages |-> Damage(DeviceResponse(r), how)]

\* every buffer that is the beginning of a frame and lacks its last bytes
Truncations(frame) == {SubSeq(frame, 1, n) : n \in 0..(Len(frame) - 1)}
TruncatedFrames ==
    UNION {Truncations(InboundOf[r, how]) : r \in RequestFrames, how \in {"intact", "empty"}}

InboundFrames == {InboundOf[r, how] : r \in RequestFrames, how \in Damages} \cup TruncatedFrames
ParsedOf == [f \in InboundFrames |-> ParsePacket(f)]

(***************************************************************************)
(* Actions of the calls                                                    *)
(***************************************************************************)
\* req_ids.append(req_id); self.xxx_responses[req_id] = None; await async_publish(packet)
Hand(c, isread, pkt) ==
    /\ req_ids' = [req_ids EXCEPT ![c] = Append(@, pkt.req_id)]
    /\ published' = [published EXCEPT ![c] = Append(@, pkt.packet)]
    /\ IF isread
       THEN /\ read_responses' = DictSet(read_responses, pkt.req_id, None)
            /\ UNCHANGED write_responses
       ELSE /\ write_responses' = DictSet(write_responses, pkt.req_id, None)
            /\ UNCHANGED read_responses
    /\ pc' = [pc EXCEPT ![c] = "publishing"]
    /\ UNCHANGED << data, parts, arrived, outcome >>

\* read_registers is called: plan, draw the ids, register the first id and hand the
\* first packet to the transport (register_count = 0 plans nothing and returns at once)
StartRead(c) ==
    /\ pc[c] = "idle"
    /\ UNCHANGED << handler_raised, fn, nonClient >>
    /\ earlier' = [earlier EXCEPT ![c] = {d \in Calls : pc[d] = "done"}]
    /\ \E start \in {ReadStart[c]}, count \in ReadCounts :
         LET plan == PlanRead(start, count)
         IN  \E ids \in [DOMAIN plan -> ReqIds], rand \in Fillers :
               LET pkts == [i \in DOMAIN plan |-> ReadPacketOf[plan[i], ids[i], rand]]
               IN  /\ args' = [args EXCEPT ![c] = [op |-> "read", a |-> start, b |-> count]]
                   /\ packets' = [packets EXCEPT ![c] = pkts]
                   /\ IF pkts = << >>
                      THEN /\ Return(c, TRUE, << >>, BytesVal(<< >>), "returned")
                           /\ UNCHANGED << req_ids, published, parts >>
                      ELSE Hand(c, TRUE, pkts[1])

\* write_register is called
StartWrite(c) ==
    /\ pc[c] = "idle"
    /\ UNCHANGED << handler_raised, fn, nonClient >>
    /\ earlier' = [earlier EXCEPT ![c] = {d \in Calls : pc[d] = "done"}]
    /\ \E value \in WriteValues, id \in ReqIds, rand \in Fillers :
         LET pkt == WritePacketOf[value, id, rand]
         IN  /\ args' = [args EXCEPT ![c] =
                            [op |-> "write", a |-> MODBUS_REG_APP_MODE, b |-> value]]
             /\ packets' = [packets EXCEPT ![c] = << pkt >>]
             /\ Hand(c, FALSE, pkt)

\* async_publish returns: the next packet is registered and handed over, or, after the
\* last packet, the wait loop makes its first turn
PublishOk(c) ==
    /\ pc[c] = "publishing"
    /\ UNCHANGED << args, packets, earlier, handler_raised, fn, nonClient >>
    /\ IF Len(req_ids[c]) < Len(packets[c])
       THEN Hand(c, IsRead(c), packets[c][Len(req_ids[c]) + 1])
       ELSE /\ Poll(c)
            /\ UNCHANGED << req_ids, published >>

\* variant: no except clause catches the HomeAssistantError of async_publish
PublishFailUncaught(c) ==
    /\ pc[c] = "publishing"
    /\ Propagate(c, "publish_error")
    /\ UNCHANGED << args, packets, req_ids, published, earlier, handler_raised, fn, nonClient >>

\* variant: after a HomeAssistantError the frame is handed to the transport once more
PublishFailRetrying(c) ==
    /\ pc[c] = "publishing"
    /\ UNCHANGED << args, packets, earlier, handler_raised, fn, nonClient >>
    /\ IF Len(published[c]) <= Len(packets[c])
       THEN Hand(c, IsRead(c), packets[c][Len(req_ids[c])])
       ELSE /\ Return(c, IsRead(c), req_ids[c], None, "publish_error")
            /\ UNCHANGED << req_ids, published, parts >>

\* async_publish raises HomeAssistantError
PublishFail(c) ==
    /\ pc[c] = "publishing"
    /\ Return(c, IsRead(c), req_ids[c], None, "publish_error")
    /\ UNCHANGED << args, packets, req_ids, published, parts, earlier, handler_raised, fn, nonClient >>

\* variant: the deadline covers the wait loop only, not the publishing
TimeoutWhileWaitingOnly(c) ==
    /\ pc[c] = "sleep"
    /\ Return(c, IsRead(c), req_ids[c], None, "timeout")
    /\ UNCHANGED << args, packets, req_ids, published, parts, earlier, handler_raised, fn, nonClient >>

\* the deadline of asyncio.timeout expires while the call is suspended
Timeout(c) ==
    /\ pc[c] \in {"publishing", "sleep"}
    /\ Return(c, IsRead(c), req_ids[c], None, "timeout")
    /\ UNCHANGED << args, packets, req_ids, published, parts, earlier, handler_raised, fn, nonClient >>

\* asyncio.sleep(1) is over and the task runs again: next turn of the wait loop
Wake(c) ==
    /\ pc[c] = "sleep"
    /\ Poll(c)
    /\ UNCHANGED << args, packets, req_ids, published, earlier, handler_raised, fn, nonClient >>

(***************************************************************************)
(* The inbound handler                                                     *)
(***************************************************************************)
\* variant: the content is appended to the bytes the slot already holds
FulfilAppending(d, req_id, content) ==
    IF req_id \in DOMAIN d
    THEN IF d[req_id].t = "bytes" /\ content.t = "bytes"
         THEN [d EXCEPT ![req_id] = BytesVal(@.b \o content.b)]
         ELSE [d EXCEPT ![req_id] = content]
    ELSE d

\* variant: an answer whose id is not in the map gets an entry of its own
FulfilInserting(d, req_id, content) == DictSet(d, req_id, content)

\* what _handle_data_transmission_rsp stores under req_id in one of the maps
Fulfil(d, req_id, content) ==
    IF req_id \in DOMAIN d THEN [d EXCEPT ![req_id] = content] ELSE d

\* the two maps as _handle_data_transmission_rsp leaves them: a payload the parser
\* rejects raises inside the try block and changes nothing
ResponsesAfter(d, payload) ==
    LET parsed == ParsedOf[payload]
    IN  IF parsed.ok THEN Fulfil(d, parsed.req_id, parsed.content) ELSE d

ReadResponsesAfter(payload) == ResponsesAfter(read_responses, payload)

WriteResponsesAfter(payload) == ResponsesAfter(write_responses, payload)

\* the exception classes: except Exception catches every one of them
ExceptionClasses == {"struct.error", "ValueError", "TypeError", "KeyError"}

\* variant: the handler catches ValueError only
CaughtIfValueError(what) == what = "ValueError"

\* except Exception as ex
Caught(what) == what \in ExceptionClasses

\* an exception of the try block that the except clause lets through
HandlerRaises(payload) ==
    LET parsed == ParsedOf[payload]
    IN  ~parsed.ok /\ ~Caught(parsed.err)

\* _handle_data_transmission_rsp
HandleDataTransmissionRsp(payload) ==
    /\ read_responses' = ReadResponsesAfter(payload)
    /\ write_responses' = WriteResponsesAfter(payload)
    /\ handler_raised' = (handler_raised \/ HandlerRaises(payload))
    /\ UNCHANGED << pc, args, packets, req_ids, published, data, parts, earlier, outcome,
                    fn, nonClient >>

\* the inverter's answer to the i-th frame call c handed over reaches the client,
\* at any time after the hand-over, any number of times, damaged or not
Deliver(c, i, how) ==
    /\ i \in DOMAIN published[c]
    /\ HandleDataTransmissionRsp(InboundOf[published[c][i], how])
    /\ arrived' = IF how = "intact" /\ pc[c] # "done"
                  THEN [arrived EXCEPT ![c] = @ \cup {i}]
                  ELSE arrived

Next ==
    \/ \E c \in Calls : StartRead(c)
    \/ \E c \in Calls : StartWrite(c)
    \/ \E c \in Calls : PublishOk(c)
    \/ \E c \in Calls : PublishFail(c)
    \/ \E c \in Calls : Timeout(c)
    \/ \E c \in Calls : Wake(c)
    \/ \E c \in Calls, i \in 1..MaxChunks, how \in Damages : Deliver(c, i, how)

Spec == Init /\ [][Next]_vars

(***************************************************************************)
(* The planning loop applied on its own                                    *)
(***************************************************************************)
\* register counts 1..MaxPlanCount with small and large caps, and the counts of the
\* documented examples with the large caps
MaxPlanCount == 12
PlanStarts == {0, 16384}
PlanCaps == {1, 2, 3, 64, MODBUS_MAX_REGISTERS_PER_QUERY}
PlanInputs ==
    {<< s, n, m >> : s \in PlanStarts, n \in 1..MaxPlanCount, m \in PlanCaps}
    \cup {<< s, n, m >> : s \in PlanStarts, n \in {130, 256},
                          m \in {64, MODBUS_MAX_REGISTERS_PER_QUERY}}

PlanInit ==
    /\ InitClient
    /\ InitAround
    /\ fn \in {[name |-> "plan_read", in |-> x, out |-> << >>, applied |-> FALSE] :
                  x \in PlanInputs}

ApplyPlanRead ==
    /\ fn.name = "plan_read" /\ ~fn.applied
    /\ fn' = [fn EXCEPT !.out = PlanWithCap(fn.in[1], fn.in[2], fn.in[3]),
                        !.applied = TRUE]
    /\ UNCHANGED << pc, args, packets, req_ids, published, read_responses, write_responses,
                    data, parts, arrived, earlier, handler_raised, outcome, nonClient >>

PlanNext == ApplyPlanRead

PlanSpec == PlanInit /\ [][PlanNext]_vars

(***************************************************************************)
(* The frame builders and the parser applied on their own                  *)
(***************************************************************************)
\* 16-bit arguments at both ends of the range and in between; 1 and 256, 258 differ
\* in their byte order
CodecStarts == {0, 16384, 65535}
CodecCounts == {1, MODBUS_MAX_REGISTERS_PER_QUERY}
CodecRegisters == {0, MODBUS_REG_APP_MODE, 65535}
CodecValues == {0, 1, 256, 65535}
CodecIds == {0, 258, 65535}
CodecFillers == {0, 4660, 65535}
\* bytes 4..7 of a response (the timestamp the parser only logs)
CodecStamps == {<< 0, 0, 0, 0 >>, DeviceTimestamp, << 255, 255, 255, 255 >>}

CodecInit ==
    /\ InitClient
    /\ InitAround
    /\ fn \in
          {[name |-> "create_read", in |-> << s, n, id, rand >>, out |-> << >>,
            applied |-> FALSE] :
              s \in CodecStarts, n \in CodecCounts, id \in CodecIds, rand \in CodecFillers}
          \cup
          {[name |-> "create_write", in |-> << r, v, id, rand >>, out |-> << >>,
            applied |-> FALSE] :
              r \in CodecRegisters, v \in CodecValues, id \in CodecIds,
              rand \in CodecFillers}
          \cup
          {[name |-> "write_round_trip", in |-> << r, v, id, rand, stamp >>, out |-> << >>,
            applied |-> FALSE] :
              r \in CodecRegisters, v \in CodecValues, id \in CodecIds, rand \in {4660},
              stamp \in CodecStamps}

\* the response that carries the id and the bytes from offset 8 of a request frame,
\* with the given bytes at 4..7
EchoOf(request, stamp) == SubSeq(request, 1, 4) \o stamp \o SubSeq(request, 9, Len(request))

ApplyCreateRead ==
    /\ fn.name = "create_read" /\ ~fn.applied
    /\ fn' = [fn EXCEPT !.out = CreateMqttReadPacket(fn.in[1], fn.in[2], fn.in[3], fn.in[4]),
                        !.applied = TRUE]
    /\ UNCHANGED << pc, args, packets, req_ids, published, read_responses, write_responses,
                    data, parts, arrived, earlier, handler_raised, outcome, nonClient >>

ApplyCreateWrite ==
    /\ fn.name = "create_write" /\ ~fn.applied
    /\ fn' = [fn EXCEPT !.out = CreateMqttWritePacket(fn.in[1], fn.in[2], fn.in[3], fn.in[4]),
                        !.applied = TRUE]
    /\ UNCHANGED << pc, args, packets, req_ids, published, read_responses, write_responses,
                    data, parts, arrived, earlier, handler_raised, outcome, nonClient >>

\* _parse_packet applied to the echo of the frame _create_mqtt_write_packet built
ApplyWriteRoundTrip ==
    /\ fn.name = "write_round_trip" /\ ~fn.applied
    /\ fn' = [fn EXCEPT
                !.out = ParsePacket(
                           EchoOf(CreateMqttWritePacket(fn.in[1], fn.in[2], fn.in[3],
                                                        fn.in[4]).packet,
                                  fn.in[5])),
                !.applied = TRUE]
    /\ UNCHANGED << pc, args, packets, req_ids, published, read_responses, write_responses,
                    data, parts, arrived, earlier, handler_raised, outcome, nonClient >>

CodecNext == ApplyCreateRead \/ ApplyCreateWrite \/ ApplyWriteRoundTrip

CodecSpec == CodecInit /\ [][CodecNext]_vars

(***************************************************************************)
(* async_setup of the integration (__init__.py) and the first requests     *)
(***************************************************************************)
\* the yaml configuration: whether the domain and its serial number are there, and
\* which of the optional scan intervals are set
SetupInit ==
    /\ InitClient
    /\ fn = NoFn
    /\ coord = NoCoord
    /\ legacy = NoLegacy
    /\ setup \in {[pc |-> "start", configured |-> cfg, intervals |-> iv,
                   subscribed |-> FALSE, sajmqtt |-> FALSE, coordinators |-> {},
                   services |-> FALSE, platforms |-> FALSE] :
                      cfg \in BOOLEAN, iv \in SUBSET OptionalCoordinators}

SetupUnchangedClient ==
    UNCHANGED << pc, args, packets, req_ids, published, read_responses, write_responses,
                 data, parts, arrived, earlier, handler_raised, fn, outcome, coord, legacy >>

\* hass.data.setdefault(...); await mqtt.async_wait_for_mqtt_client(hass)
SetupStart ==
    /\ setup.pc = "start"
    /\ setup' = [setup EXCEPT !.pc = "wait_client"]
    /\ SetupUnchangedClient

\* variant: the coordinators are created and the services registered before
\* initialize() is awaited
SetupClientAnswerCoordinatorsFirst(available) ==
    /\ setup.pc = "wait_client"
    /\ IF available /\ setup.configured
       THEN setup' = [setup EXCEPT !.pc = "subscribing",
                                   !.coordinators = {"realtime"} \cup setup.intervals,
                                   !.services = TRUE]
       ELSE setup' = [setup EXCEPT !.pc = "failed"]
    /\ SetupUnchangedClient

\* async_wait_for_mqtt_client returns: without the client or without the
\* configuration async_setup returns False; otherwise SajMqtt is constructed and
\* initialize() awaits mqtt.async_subscribe
SetupClientAnswer(available) ==
    /\ setup.pc = "wait_client"
    /\ IF available /\ setup.configured
       THEN setup' = [setup EXCEPT !.pc = "subscribing"]
       ELSE setup' = [setup EXCEPT !.pc = "failed"]
    /\ SetupUnchangedClient

\* async_subscribe returns and initialize() with it: the client is stored in
\* hass.data, the coordinators are created, the services registered, and
\* async_setup awaits asyncio.sleep(1)
SetupSubscribed ==
    /\ setup.pc = "subscribing"
    /\ setup' = [setup EXCEPT !.pc = "sleep",
                              !.subscribed = TRUE,
                              !.sajmqtt = TRUE,
                              !.coordinators = {"realtime"} \cup setup.intervals,
                              !.services = TRUE]
    /\ SetupUnchangedClient

\* async_subscribe raises: the exception leaves initialize() and async_setup
SetupSubscribeFails ==
    /\ setup.pc = "subscribing"
    /\ setup' = [setup EXCEPT !.pc = "failed"]
    /\ SetupUnchangedClient

\* the sleep is over: the platforms are loaded and async_setup returns True
SetupSlept ==
    /\ setup.pc = "sleep"
    /\ setup' = [setup EXCEPT !.pc = "done", !.platforms = TRUE]
    /\ SetupUnchangedClient

\* a coordinator that exists fetches: read_registers is called
CoordinatorFetch(c) ==
    /\ setup.coordinators # {}
    /\ StartRead(c)

\* a registered service is called: read_register calls read_registers, set_app_mode
\* and write_register call write_register
ServiceCall(c) ==
    /\ setup.services
    /\ (StartRead(c) \/ StartWrite(c))

SetupNext ==
    \/ SetupStart
    \/ \E available \in BOOLEAN : SetupClientAnswer(available)
    \/ SetupSubscribed
    \/ SetupSubscribeFails
    \/ SetupSlept
    \/ \E c \in Calls : CoordinatorFetch(c)
    \/ \E c \in Calls : ServiceCall(c)

SetupSpec == SetupInit /\ [][SetupNext]_vars

(***************************************************************************)
(* SajMqttCoordinator (coordinator.py): the update cycle                   *)
(***************************************************************************)
\* update cycles the model follows
MaxCycles == 3

\* the fields in the order _async_update_data fetches them
CoordFields == << "inverter_info", "battery_info", "battery_controller_data", "realtime_data" >>
FetchedOnce == {"inverter_info", "battery_info"}

\* how a read_registers call can end: it returns a buffer (an empty one too), it
\* returns None after a timeout or a publishing failure, or an exception leaves it
CoordPayloads == {<< >>, << 1 >>, << 2 >>}
ReadResults ==
    {[how |-> "returned", value |-> BytesVal(b)] : b \in CoordPayloads}
    \cup {[how |-> h, value |-> None] : h \in {"timeout", "publish_error"}}
    \cup {[how |-> h, value |-> None] : h \in {"TypeError", "KeyError"}}

ResultRaises(r) == r.how \in {"TypeError", "KeyError"}

\* the position in CoordFields of the first field from position i on that
\* _async_update_data fetches, 5 when there is none: the first two are skipped
\* once they are not None
RECURSIVE NextFetch(_, _)
NextFetch(co, i) ==
    IF i > Len(CoordFields) THEN i
    ELSE IF CoordFields[i] \in FetchedOnce /\ co[CoordFields[i]] # None
         THEN NextFetch(co, i + 1)
         ELSE i

\* the coordinator runs on from position i to its next await or to its return
CoordRunFrom(co, i) ==
    LET j == NextFetch(co, i)
    IN  IF j > Len(CoordFields)
        THEN [co EXCEPT !.pc = "idle", !.in_flight = {}]
        ELSE [co EXCEPT !.pc = CoordFields[j],
                        !.requested = Append(@, CoordFields[j]),
                        !.in_flight = {CoordFields[j]}]

CoordUnchangedRest ==
    UNCHANGED << pc, args, packets, req_ids, published, read_responses, write_responses,
                 data, parts, arrived, earlier, handler_raised, fn, outcome, setup, legacy >>

\* _async_update_data is called; the coordinator's refresh starts the next update
\* after the last one has ended
CoordUpdate ==
    /\ coord.pc = "idle"
    /\ coord.cycles < MaxCycles
    /\ coord' = CoordRunFrom(
                    [coord EXCEPT !.cycles = @ + 1, !.requested = << >>,
                                  !.none_at_start = {f \in FetchedOnce : coord[f] = None}],
                    1)
    /\ CoordUnchangedRest

PositionOf(f) == CHOOSE i \in DOMAIN CoordFields : CoordFields[i] = f

\* the awaited read_registers ends: its value is stored and the update runs on, or
\* its exception leaves _async_update_data
CoordFetchEnds(r) ==
    /\ coord.pc # "idle"
    /\ IF ResultRaises(r)
       THEN coord' = [coord EXCEPT !.pc = "idle", !.in_flight = {}]
       ELSE coord' = CoordRunFrom([coord EXCEPT ![coord.pc] = r.value],
                                  PositionOf(coord.pc) + 1)
    /\ CoordUnchangedRest

CoordNext ==
    \/ CoordUpdate
    \/ \E r \in ReadResults : CoordFetchEnds(r)

CoordSpec == Init /\ [][CoordNext]_vars

(***************************************************************************)
(* The legacy client (custom_components/sajmqtt.py): SajMqtt.query and its *)
(* handler, with one responses map shared by all queries                   *)
(***************************************************************************)
MAX_REGISTERS_PER_QUERY == 64

\* data = bytearray(); for response in values: data += response
RECURSIVE ConcatValues(_)
ConcatValues(vals) ==
    IF vals = << >> THEN << >> ELSE Head(vals).b \o ConcatValues(Tail(vals))

\* an OrderedDict as the sequence of its items << key, value >>
ODKeys(od) == {od[i][1] : i \in DOMAIN od}
ODGet(od, k) == od[CHOOSE i \in DOMAIN od : od[i][1] = k][2]
\* od[k] = v: a key that is there keeps its place, a new one goes last
ODSet(od, k, v) ==
    IF k \in ODKeys(od)
    THEN [i \in DOMAIN od |-> IF od[i][1] = k THEN << k, v >> ELSE od[i]]
    ELSE Append(od, << k, v >>)
\* del od[k] for every k of ks that is there
ODDel(od, ks) == SelectSeq(od, LAMBDA item : item[1] \notin ks)
ODValues(od) == [i \in DOMAIN od |-> od[i][2]]

\* forge_packet with its two random draws made explicit
ForgePacket(start, count, req_id, rnd_value) ==
    LET content == << 1, 3 >> \o PackU16(start) \o PackU16(count)
        crc16 == computeCRC(content)
        packet == PackU16(req_id) \o << 88, 201 >> \o PackU16(rnd_value)
                    \o content \o PackU16(crc16)
    IN  [packet |-> PackU16(Len(packet)) \o packet, req_id |-> req_id]

\* the legacy _parse_packet: the two CRCs are compared for the log only
LegacyParsePacket(packet) ==
    IF Len(packet) < 11 THEN Raised("struct.error")
    ELSE LET size == U8At(packet, 10)
         IN  IF Len(packet) < 11 + size + 2 THEN Raised("struct.error")
             ELSE Returned(U16At(packet, 2), BytesVal(Slice(packet, 11, 11 + size)))

\* the counts a query asks for: none, one packet, two packets
LegacyCounts == {0, 1, MAX_REGISTERS_PER_QUERY + 1}
LegacyPlans == {PlanWithCap(s, n, MAX_REGISTERS_PER_QUERY) : s \in ReadStarts, n \in LegacyCounts}
LegacyChunks == UNION {Range(pl) : pl \in LegacyPlans}
ForgedOf == [ch \in LegacyChunks, id \in ReqIds, rnd_value \in Fillers |->
                ForgePacket(ch[1], ch[2], id, rnd_value)]
LegacyRequestFrames ==
    {ForgedOf[ch, id, rnd_value].packet :
        ch \in LegacyChunks, id \in ReqIds, rnd_value \in Fillers}
LegacyDamages == {"intact", "badcrc", "short"}
LegacyInboundOf == [r \in LegacyRequestFrames, how \in LegacyDamages |->
                       Damage(DeviceResponse(r), how)]
LegacyParsedOf ==
    [f \in {LegacyInboundOf[r, how] : r \in LegacyRequestFrames, how \in LegacyDamages} |->
        LegacyParsePacket(f)]

LegacyUnchangedRest ==
    UNCHANGED << pc, args, packets, req_ids, published, read_responses, write_responses,
                 data, parts, arrived, earlier, handler_raised, fn, outcome, setup, coord >>

\* the ids of the packets of a query
LegacyIds(lg, q) == {lg.packets[q][i].req_id : i \in DOMAIN lg.packets[q]}

\* data is set, the ids of the query's packets are deleted, query returns
LegacyReturn(lg, q, value, vals, how) ==
    [lg EXCEPT !.responses = ODDel(@, LegacyIds(lg, q)),
               !.pc[q] = "done",
               !.data[q] = value,
               !.parts[q] = vals,
               !.outcome[q] = how]

\* responses[req_id] = None; await mqtt.async_publish(...)
LegacyHand(lg, q, pkt) ==
    [lg EXCEPT !.responses = ODSet(@, pkt.req_id, None),
               !.published[q] = Append(@, pkt.packet),
               !.pc[q] = "publishing"]

\* one turn of the wait loop: all(responses.values()) looks at every entry of the
\* map, and so does the concatenation
LegacyPoll(lg, q) ==
    IF \A i \in DOMAIN lg.responses : Truthy(lg.responses[i][2])
    THEN LegacyReturn(lg, q, BytesVal(ConcatValues(ODValues(lg.responses))),
                      ODValues(lg.responses), "returned")
    ELSE [lg EXCEPT !.pc[q] = "sleep"]

\* responses.clear()
LegacyClear(od) == << >>

\* query is called: the map is emptied, the packets are forged, and the first one is
\* registered and handed to the transport (count = 0 forges none and returns)
LegacyQuery(q) ==
    /\ legacy.pc[q] = "idle"
    /\ \E count \in LegacyCounts, rnd_value \in Fillers :
         LET plan == PlanWithCap(ReadStart[q], count, MAX_REGISTERS_PER_QUERY)
         IN  \E ids \in [DOMAIN plan -> ReqIds] :
               LET pkts == [i \in DOMAIN plan |-> ForgedOf[plan[i], ids[i], rnd_value]]
                   lg == [legacy EXCEPT !.responses = LegacyClear(@),
                                        !.count[q] = count,
                                        !.packets[q] = pkts]
               IN  legacy' = IF pkts = << >> THEN LegacyPoll(lg, q)
                             ELSE LegacyHand(lg, q, pkts[1])
    /\ LegacyUnchangedRest

\* async_publish returns: the next packet, or the first turn of the wait loop
LegacyPublishOk(q) ==
    /\ legacy.pc[q] = "publishing"
    /\ legacy' = IF Len(legacy.published[q]) < Len(legacy.packets[q])
                 THEN LegacyHand(legacy, q, legacy.packets[q][Len(legacy.published[q]) + 1])
                 ELSE LegacyPoll(legacy, q)
    /\ LegacyUnchangedRest

\* async_publish raises HomeAssistantError
LegacyPublishFail(q) ==
    /\ legacy.pc[q] = "publishing"
    /\ legacy' = LegacyReturn(legacy, q, None, << >>, "publish_error")
    /\ LegacyUnchangedRest

\* the deadline of async_timeout expires while the query is suspended
LegacyTimeout(q) ==
    /\ legacy.pc[q] \in {"publishing", "sleep"}
    /\ legacy' = LegacyReturn(legacy, q, None, << >>, "timeout")
    /\ LegacyUnchangedRest

\* asyncio.sleep(1) is over: next turn of the wait loop; a turn that finds the map
\* as the last one did changes nothing
LegacyWake(q) ==
    /\ legacy.pc[q] = "sleep"
    /\ legacy' = LegacyPoll(legacy, q)
    /\ LegacyUnchangedRest

\* the responses map as the legacy _handle_data_transmission_rsp leaves it
LegacyResponsesAfter(od, payload) ==
    LET parsed == LegacyParsedOf[payload]
    IN  IF parsed.ok /\ parsed.req_id \in ODKeys(od)
        THEN ODSet(od, parsed.req_id, parsed.content)
        ELSE od

\* the answer to the i-th frame of query q reaches the client, damaged or not
LegacyDeliver(q, i, how) ==
    /\ i \in DOMAIN legacy.published[q]
    /\ legacy' = [legacy EXCEPT
                    !.responses = LegacyResponsesAfter(
                                     @, LegacyInboundOf[legacy.published[q][i], how])]
    /\ LegacyUnchangedRest

LegacyNext ==
    \/ \E q \in Calls : LegacyQuery(q)
    \/ \E q \in Calls : LegacyPublishOk(q)
    \/ \E q \in Calls : LegacyPublishFail(q)
    \/ \E q \in Calls : LegacyTimeout(q)
    \/ \E q \in Calls : LegacyWake(q)
    \/ \E q \in Calls, i \in 1..MaxChunks, how \in LegacyDamages : LegacyDeliver(q, i, how)

LegacySpec == Init /\ [][LegacyNext]_vars

\* the deadline of asyncio.timeout does expire: the event loop cancels the call at
\* the await it is suspended in
FairSpec == Spec /\ \A c \in Calls : WF_vars(Timeout(c))

(***************************************************************************)
(* Properties                                                              *)
(***************************************************************************)
InProgress(c) == pc[c] \in {"publishing", "sleep"}
ReadReturned(c) == pc[c] = "done" /\ args[c].op = "read" /\ outcome[c] = "returned"
WriteReturned(c) == pc[c] = "done" /\ args[c].op = "write" /\ outcome[c] = "returned"

\* the ids drawn for the packets of a call
PlannedIds(c) == {packets[c][i].req_id : i \in DOMAIN packets[c]}

\* the pending map a call registers in
OwnMap(c) == IF args[c].op = "read" THEN read_responses ELSE write_responses
OwnMapAfter(c, payload) ==
    IF args[c].op = "read" THEN ReadResponsesAfter(payload) ELSE WriteResponsesAfter(payload)

\* the payload the inverter returns for the i-th chunk of a read
ChunkPayload(c, i) ==
    LET chunk == PlanRead(args[c].a, args[c].b)[i]
    IN  DeviceContent(chunk[1], chunk[2])

\* the payloads of all chunks of a read, in request order
RECURSIVE PayloadsFrom(_, _)
PayloadsFrom(c, i) ==
    IF i > Len(packets[c]) THEN << >> ELSE ChunkPayload(c, i) \o PayloadsFrom(c, i + 1)

ExpectedData(c) == BytesVal(PayloadsFrom(c, 1))

\* the answer to the i-th frame call c handed over, as the inverter sends it
AnswerTo(c, i) == InboundOf[published[c][i], "intact"]

\* C1: whenever read_registers returns a buffer, the buffer is made of exactly one
\* CRC-valid read payload per planned chunk, whatever ids were drawn.
C1_OnePayloadPerChunk ==
    \A c \in Calls :
        ReadReturned(c) =>
            /\ Len(parts[c]) = Len(PlanRead(args[c].a, args[c].b))
            /\ \A i \in DOMAIN parts[c] : parts[c][i].t = "bytes"

\* C2: when read_registers or write_register ends, in whatever way, none of the ids
\* the call registered is left in its pending map.
C2_IdsRemovedOnEveryExit ==
    [][\A c \in Calls :
          (pc[c] # "done" /\ pc'[c] = "done") =>
              \A i \in DOMAIN req_ids'[c] : req_ids'[c][i] \notin DOMAIN OwnMap(c)']_vars

\* C3: a read_registers call that ends while the answer to one of its packets
\* has not arrived returns None, and none of its ids is left in read_responses.
C3_MissingAnswerGivesNone ==
    [][\A c \in Calls :
          (/\ pc[c] # "done" /\ pc'[c] = "done"
           /\ args'[c].op = "read"
           /\ arrived'[c] # DOMAIN packets'[c]) =>
              /\ data'[c] = None
              /\ outcome'[c] \in {"timeout", "publish_error"}
              /\ \A i \in DOMAIN req_ids'[c] :
                    req_ids'[c][i] \notin DOMAIN read_responses']_vars

\* C4: the bytes a multi-chunk read_registers returns are the chunk payloads
\* concatenated in request order, whatever the order the answers arrived in.
C4_ConcatenatedInRequestOrder ==
    \A c \in Calls :
        (ReadReturned(c) /\ Len(packets[c]) > 1) => data[c] = ExpectedData(c)

\* C5: the answer to a call that timed out and cleaned up, arriving late, changes no
\* pending slot of a call that began afterwards, even when that call drew the same id.
C5_LateAnswerDropped ==
    \A c \in Calls, d \in Calls :
        (c \in earlier[d] /\ outcome[c] = "timeout" /\ InProgress(d)) =>
            \A i \in DOMAIN published[c] :
                AnswerTo(c, i) \notin {AnswerTo(d, j) : j \in DOMAIN published[d]} =>
                    OwnMapAfter(d, AnswerTo(c, i)) = OwnMap(d)

\* the frame that reaches the client when the answer to the i-th frame of call c
\* is damaged on the way
DamagedAnswerTo(c, i, how) == InboundOf[published[c][i], how]

DisjointIds(c, d) == PlannedIds(c) \cap PlannedIds(d) = {}

\* what a call returned is made of the answers to its own frames only
BuiltFromOwnAnswers(c) ==
    IF args[c].op = "read"
    THEN \A i \in DOMAIN parts[c] :
            \E j \in DOMAIN packets[c] : parts[c][i] = BytesVal(ChunkPayload(c, j))
    ELSE data[c] = IntVal(args[c].b)

\* a step of call c (registration, completion, cleanup) leaves the entries call d
\* has pending as they are
LeavesEntriesOf(c, d) ==
    (pc'[c] # pc[c] \/ req_ids'[c] # req_ids[c]) =>
        \A i \in DOMAIN req_ids[d] :
            req_ids[d][i] \in DOMAIN OwnMap(d) =>
                /\ req_ids[d][i] \in DOMAIN OwnMap(d)'
                /\ OwnMap(d)'[req_ids[d][i]] = OwnMap(d)[req_ids[d][i]]

\* C7: overlapping calls whose ids are disjoint do not interfere: the result of each
\* is built from the answers carrying its own ids, and no step of one call removes
\* or changes a pending entry of the other.
C7_DisjointCallsDoNotInterfere ==
    /\ [](\A c \in Calls :
            (pc[c] = "done" /\ outcome[c] = "returned"
               /\ \A d \in Calls \ {c} : DisjointIds(c, d)) => BuiltFromOwnAnswers(c))
    /\ [][\A c \in Calls, d \in Calls :
            (c # d /\ InProgress(d) /\ PlannedIds(c)' \cap PlannedIds(d) = {})
                => LeavesEntriesOf(c, d)]_vars

\* a two-packet read returned while an overlapping call with other ids still waits
C7_Witness ==
    \E c \in Calls, d \in Calls :
        /\ c # d
        /\ ReadReturned(c) /\ Len(packets[c]) > 1
        /\ pc[d] = "sleep" /\ c \notin earlier[d]
        /\ DisjointIds(c, d)
        /\ \A i \in DOMAIN req_ids[d] : req_ids[d][i] \in DOMAIN OwnMap(d)

\* C8: write_register returns the value echoed by a write answer carrying the id of
\* its request, and a frame carrying another id does not change its pending slot.
C8_WriteReturnsMatchingEcho ==
    \A c \in Calls :
        /\ WriteReturned(c) =>
              /\ data[c].t = "int"
              /\ \E d \in Calls :
                    /\ args[d].op = "write"
                    /\ PlannedIds(d) = PlannedIds(c)
                    /\ data[c].n = args[d].b
        /\ (args[c].op = "write" /\ InProgress(c)
              /\ req_ids[c][1] \in DOMAIN write_responses) =>
              \A d \in Calls :
                  \A i \in DOMAIN published[d] :
                      \A how \in Damages :
                          ParsedOf[DamagedAnswerTo(d, i, how)].req_id # req_ids[c][1] =>
                              WriteResponsesAfter(DamagedAnswerTo(d, i, how))[req_ids[c][1]]
                                  = write_responses[req_ids[c][1]]

\* C9: a write_register call whose slot holds the echoed value 0 ends at its next
\* turn and returns 0; the call goes to sleep only while its slot is unset.
C9_ZeroCompletesWrite ==
    [][\A c \in Calls :
          (args[c].op = "write" /\ InProgress(c) /\ pc'[c] # pc[c]) =>
              /\ (/\ req_ids[c][1] \in DOMAIN write_responses
                  /\ write_responses[req_ids[c][1]] = IntVal(0)) =>
                    /\ pc'[c] = "done"
                    /\ outcome'[c] \in {"returned", "timeout", "publish_error"}
                    /\ outcome'[c] = "returned" => data'[c] = IntVal(0)
              /\ pc'[c] = "sleep" =>
                    /\ req_ids[c][1] \in DOMAIN write_responses
                    /\ write_responses[req_ids[c][1]] = None]_vars

\* write_register(MODBUS_REG_APP_MODE, 0) has returned 0
C9_Witness ==
    \E c \in Calls : WriteReturned(c) /\ args[c].b = 0 /\ data[c] = IntVal(0)

\* C10: when the publishing of a frame of read_registers fails, the call ends at
\* once with None, no further frame is handed to the transport, then or later, and
\* every id the call registered is out of read_responses.
C10_PublishFailureAborts ==
    [][\A c \in Calls :
          args'[c].op = "read" =>
              /\ (outcome[c] = "running" /\ outcome'[c] = "publish_error") =>
                    /\ pc[c] = "publishing" /\ pc'[c] = "done"
                    /\ data'[c] = None
                    /\ published'[c] = published[c]
                    /\ \A i \in DOMAIN req_ids'[c] :
                          req_ids'[c][i] \notin DOMAIN read_responses'
              /\ outcome[c] = "publish_error" =>
                    /\ pc'[c] = "done"
                    /\ data'[c] = None
                    /\ published'[c] = published[c]]_vars

\* the publishing of the first of two frames of a read failed
C10_Witness ==
    \E c \in Calls :
        /\ args[c].op = "read" /\ outcome[c] = "publish_error"
        /\ Len(published[c]) = 1 /\ Len(packets[c]) = 2

\* C11: read_registers ends with the timeout outcome only when the answer to at
\* least one of its packets had not been handled when the deadline expired.
C11_TimeoutOnlyIfAnswerMissing ==
    [][\A c \in Calls :
          (args[c].op = "read" /\ outcome[c] = "running" /\ outcome'[c] = "timeout") =>
              arrived[c] # DOMAIN packets[c]]_vars

\* C12: every read_registers and write_register call that has begun ends, whether or
\* not answers arrive and whether or not async_publish ever returns.
C12_EveryCallEnds ==
    \A c \in Calls : InProgress(c) ~> (pc[c] = "done")

\* a call was ended by its deadline while a frame it handed over was still being
\* published and later frames had not been handed over
C12_Witness ==
    \E c \in Calls :
        /\ pc[c] = "done" /\ outcome[c] = "timeout"
        /\ Len(published[c]) < Len(packets[c])

\* C13: read_registers and write_register end by returning a result or an error
\* outcome, never with an exception that leaves the coroutine.
C13_NoUnhandledException ==
    \A c \in Calls :
        outcome[c] \in {"running", "returned", "timeout", "publish_error"}

\* C14: no exception leaves _handle_data_transmission_rsp, whatever payload it is
\* handed: too short, wrong CRC, unknown kind, unknown id.
C14_HandlerNeverRaises ==
    /\ ~handler_raised
    /\ \A c \in Calls :
          \A i \in DOMAIN published[c] :
              \A how \in Damages : ~HandlerRaises(DamagedAnswerTo(c, i, how))

\* the call has ended and its id is in neither map, and the answers to its frame
\* that the parser rejects with struct.error and with ValueError can still arrive
C14_Witness ==
    \E c \in Calls :
        \E i \in DOMAIN published[c] :
            /\ pc[c] = "done"
            /\ req_ids[c][i] \notin DOMAIN read_responses \cup DOMAIN write_responses
            /\ ParsedOf[DamagedAnswerTo(c, i, "short")].err = "struct.error"
            /\ ParsedOf[DamagedAnswerTo(c, i, "badkind")].err = "ValueError"
            /\ ParsedOf[DamagedAnswerTo(c, i, "badcrc")].err = "ValueError"
            /\ ~handler_raised

\* C15: the value a call returns after its deadline expired differs from the value
\* a call returns after a publishing failed.
C15_TimeoutDiffersFromPublishError ==
    \A c \in Calls, d \in Calls :
        (outcome[c] = "timeout" /\ outcome[d] = "publish_error") => data[c] # data[d]

\* C16: read_registers with register_count = 0 registers nothing, publishes nothing
\* and ends with an error outcome, not with a buffer.
C16_ZeroCountRejected ==
    \A c \in Calls :
        (args[c].op = "read" /\ args[c].b = 0 /\ pc[c] = "done") =>
            /\ req_ids[c] = << >>
            /\ published[c] = << >>
            /\ outcome[c] # "returned"
            /\ data[c].t # "bytes"

RECURSIVE SumCounts(_)
SumCounts(plan) == IF plan = << >> THEN 0 ELSE Head(plan)[2] + SumCounts(Tail(plan))

\* C17: for count > 0 and cap M the planner yields consecutive chunks starting at
\* start, each of M registers except the last, which has between 1 and M, and the
\* counts add up to count; with M = 64, (0x4000, 256) gives four chunks of 64 at
\* 0x4000, 0x4040, 0x4080, 0x40C0 and (0x4000, 130) gives counts 64, 64, 2.
C17_PlanIsGreedyPartition ==
    (fn.name = "plan_read" /\ fn.applied /\ fn.in[2] > 0) =>
        LET plan == fn.out
            M == fn.in[3]
        IN  /\ Len(plan) >= 1
            /\ plan[1][1] = fn.in[1]
            /\ \A i \in 1..(Len(plan) - 1) :
                  /\ plan[i + 1][1] = plan[i][1] + plan[i][2]
                  /\ plan[i][2] = M
            /\ plan[Len(plan)][2] \in 1..M
            /\ SumCounts(plan) = fn.in[2]
            /\ fn.in = << 16384, 256, 64 >> =>
                  plan = << << 16384, 64 >>, << 16448, 64 >>, << 16512, 64 >>,
                            << 16576, 64 >> >>
            /\ fn.in = << 16384, 130, 64 >> =>
                  [i \in DOMAIN plan |-> plan[i][2]] = << 64, 64, 2 >>

\* the planner was applied to (0x4000, 130) with cap 64 and gave three chunks
C17_Witness ==
    fn.name = "plan_read" /\ fn.applied /\ fn.in = << 16384, 130, 64 >> /\ Len(fn.out) = 3

\* the CRC field of a frame equals the CRC of its unit/function/body bytes
CrcFieldValid(frame) ==
    U16At(frame, Len(frame) - 2) = computeCRC(Slice(frame, 8, Len(frame) - 2))

\* C18: an inbound frame whose function field minus 0x100 is neither 0x03 nor 0x06
\* sets no pending slot, even when its id is pending: both maps stay as they are.
C18_UnknownKindDiscarded ==
    \A c \in Calls :
        \A i \in DOMAIN published[c] :
            /\ U16At(DamagedAnswerTo(c, i, "badkind"), 8) - 256
                  \notin {MODBUS_READ_REQUEST, MODBUS_WRITE_REQUEST}
            /\ ReadResponsesAfter(DamagedAnswerTo(c, i, "badkind")) = read_responses
            /\ WriteResponsesAfter(DamagedAnswerTo(c, i, "badkind")) = write_responses

\* a call waits on an unset slot, and a frame with its id, a valid CRC and the
\* function 0x04 is rejected by the parser
C18_Witness ==
    \E c \in Calls :
        \E i \in DOMAIN published[c] :
            /\ pc[c] = "sleep"
            /\ req_ids[c][i] \in DOMAIN OwnMap(c)
            /\ OwnMap(c)[req_ids[c][i]] = None
            /\ U16At(DamagedAnswerTo(c, i, "badkind"), 2) = req_ids[c][i]
            /\ CrcFieldValid(DamagedAnswerTo(c, i, "badkind"))
            /\ ParsedOf[DamagedAnswerTo(c, i, "badkind")].err = "ValueError"

\* what the wait loop of call c finds in map d: whether the call completes at its
\* next turn, and the values it then returns
FoundIn(c, d) ==
    IF args[c].op = "read"
    THEN LET keys == ResponseKeys(req_ids[c], d, {})
         IN  << AllResponses(keys, d), ResponseValues(keys, d) >>
    ELSE IF req_ids[c][1] \in DOMAIN d
         THEN << WriteArrived(d[req_ids[c][1]]), << d[req_ids[c][1]] >> >>
         ELSE << FALSE, << >> >>

\* C19: handling the same valid answer twice leaves both maps as handling it once
\* does, and the call that owns the answer finds the same values either way.
C19_DuplicateDeliveryTolerated ==
    \A c \in Calls :
        \A i \in DOMAIN published[c] :
            /\ ResponsesAfter(ResponsesAfter(read_responses, AnswerTo(c, i)), AnswerTo(c, i))
                  = ResponsesAfter(read_responses, AnswerTo(c, i))
            /\ ResponsesAfter(ResponsesAfter(write_responses, AnswerTo(c, i)), AnswerTo(c, i))
                  = ResponsesAfter(write_responses, AnswerTo(c, i))
            /\ InProgress(c) =>
                  FoundIn(c, ResponsesAfter(ResponsesAfter(OwnMap(c), AnswerTo(c, i)),
                                            AnswerTo(c, i)))
                      = FoundIn(c, ResponsesAfter(OwnMap(c), AnswerTo(c, i)))

\* a call in progress holds in its slot the content of its own answer, which has
\* been handled, and the answer may be handled again
C19_Witness ==
    \E c \in Calls :
        \E i \in DOMAIN published[c] :
            /\ pc[c] = "sleep"
            /\ i \in arrived[c]
            /\ req_ids[c][i] \in DOMAIN OwnMap(c)
            /\ OwnMap(c)[req_ids[c][i]] = ParsedOf[AnswerTo(c, i)].content
            /\ Truthy(OwnMap(c)[req_ids[c][i]])

\* the request kind of a response frame
FrameKind(frame) == U16At(frame, 8) - 256

\* C20: a write-kind answer never sets a pending read slot and a read-kind answer
\* never sets a pending write slot, even when the ids are equal.
C20_SlotFilledByMatchingKindOnly ==
    \A c \in Calls :
        \A i \in DOMAIN published[c] :
            /\ FrameKind(AnswerTo(c, i)) = MODBUS_WRITE_REQUEST =>
                  ReadResponsesAfter(AnswerTo(c, i)) = read_responses
            /\ FrameKind(AnswerTo(c, i)) = MODBUS_READ_REQUEST =>
                  WriteResponsesAfter(AnswerTo(c, i)) = write_responses

\* the map call c registers in, before and after a step in which it may have begun
MapAtRegistration(c) == IF args'[c].op = "read" THEN read_responses ELSE write_responses
MapAfterRegistration(c) == IF args'[c].op = "read" THEN read_responses' ELSE write_responses'

\* C21: registering an id that is already in the map fails and leaves the slot and
\* its value as they are: the call ends with an error and the slot is not rewritten.
C21_DuplicateIdRejected ==
    [][\A c \in Calls :
          (/\ Len(req_ids'[c]) = Len(req_ids[c]) + 1
           /\ req_ids'[c][Len(req_ids'[c])] \in DOMAIN MapAtRegistration(c)) =>
              /\ req_ids'[c][Len(req_ids'[c])] \in DOMAIN MapAfterRegistration(c)
              /\ MapAfterRegistration(c)[req_ids'[c][Len(req_ids'[c])]]
                    = MapAtRegistration(c)[req_ids'[c][Len(req_ids'[c])]]
              /\ pc'[c] = "done"
              /\ outcome'[c] \notin {"running", "returned"}]_vars

\* C22: once a slot holds a value, a later frame with the same id does not change
\* it, whatever its content.
C22_SlotSetAtMostOnce ==
    \A c \in Calls :
        \A i \in DOMAIN published[c] :
            /\ \A id \in DOMAIN read_responses :
                  read_responses[id] # None =>
                      ReadResponsesAfter(AnswerTo(c, i))[id] = read_responses[id]
            /\ \A id \in DOMAIN write_responses :
                  write_responses[id] # None =>
                      WriteResponsesAfter(AnswerTo(c, i))[id] = write_responses[id]

\* C23: an id is registered before its frame is handed to the transport, so the
\* answer to a frame that has been handed over finds the slot of its id in the map
\* for as long as the call is in progress, and a value stored in the slot stays
\* there until the call has read it.
C23_RegisteredBeforePublished ==
    /\ [](\A c \in Calls :
            /\ Len(published[c]) = Len(req_ids[c])
            /\ \A i \in DOMAIN published[c] :
                  /\ U16At(published[c][i], 2) = req_ids[c][i]
                  /\ InProgress(c) => req_ids[c][i] \in DOMAIN OwnMap(c))
    /\ [][\A c \in Calls :
            (InProgress(c) /\ pc'[c] \in {"publishing", "sleep"}) =>
                \A i \in DOMAIN req_ids[c] :
                    (req_ids[c][i] \in DOMAIN OwnMap(c)
                       /\ OwnMap(c)[req_ids[c][i]] = ParsedOf[AnswerTo(c, i)].content) =>
                          /\ req_ids[c][i] \in DOMAIN OwnMap(c)'
                          /\ OwnMap(c)'[req_ids[c][i]] = OwnMap(c)[req_ids[c][i]]]_vars

\* the correlation id an inbound frame carries
FrameId(frame) == U16At(frame, 2)

\* C24: the inbound handler never adds or removes a key of the two maps; a frame
\* whose id is in neither map leaves both maps as they are, and a frame whose id is
\* known changes at most the value stored under that id.
C24_HandlerKeepsKeys ==
    \A c \in Calls :
        \A i \in DOMAIN published[c] :
            \A how \in Damages :
                LET frame == DamagedAnswerTo(c, i, how)
                IN  /\ DOMAIN ReadResponsesAfter(frame) = DOMAIN read_responses
                    /\ DOMAIN WriteResponsesAfter(frame) = DOMAIN write_responses
                    /\ \A k \in DOMAIN read_responses :
                          k # FrameId(frame) => ReadResponsesAfter(frame)[k] = read_responses[k]
                    /\ \A k \in DOMAIN write_responses :
                          k # FrameId(frame) =>
                              WriteResponsesAfter(frame)[k] = write_responses[k]
                    /\ (FrameId(frame) \notin DOMAIN read_responses
                            /\ FrameId(frame) \notin DOMAIN write_responses) =>
                           /\ ReadResponsesAfter(frame) = read_responses
                           /\ WriteResponsesAfter(frame) = write_responses

\* a call has ended and the id of its frame is in neither map, so the CRC-valid
\* answer to it is late, while the other call waits on an entry under another id
\* that its own answer would set
C24_Witness ==
    \E c \in Calls, d \in Calls :
        /\ pc[c] = "done" /\ published[c] # << >>
        /\ ParsedOf[AnswerTo(c, 1)].ok
        /\ FrameId(AnswerTo(c, 1)) \notin DOMAIN read_responses
        /\ FrameId(AnswerTo(c, 1)) \notin DOMAIN write_responses
        /\ pc[d] = "sleep"
        /\ req_ids[d][1] \in DOMAIN OwnMap(d)
        /\ OwnMap(d)[req_ids[d][1]] = None
        /\ OwnMapAfter(d, AnswerTo(d, 1)) # OwnMap(d)

\* every id of a read is registered, its frame handed over, and holds a value
AllIdsAnswered(c) ==
    /\ Len(req_ids[c]) = Len(packets[c])
    /\ \A i \in DOMAIN req_ids[c] :
          /\ req_ids[c][i] \in DOMAIN read_responses
          /\ read_responses[req_ids[c][i]].t = "bytes"

\* C25: a read_registers call whose ids have all received a value, a CRC-valid
\* answer of size 0 included, completes at the next turn of its wait loop.
C25_EmptyAnswerCompletesRead ==
    \A c \in Calls :
        (args[c].op = "read" /\ InProgress(c) /\ AllIdsAnswered(c)) =>
            FoundIn(c, read_responses)[1]

\* the register_count field of a request frame
FrameCount(frame) == U16At(frame, 12)

\* C26: every read frame that read_registers publishes asks for 1 to
\* MODBUS_MAX_REGISTERS_PER_QUERY registers, and that cap is not above the 123
\* registers one modbus frame can carry.
C26_ReadFramesWithinCap ==
    /\ MODBUS_MAX_REGISTERS_PER_QUERY <= MODBUS_ABSOLUTE_MAX_REGISTERS
    /\ \A c \in Calls :
          args[c].op = "read" =>
              \A i \in DOMAIN published[c] :
                  /\ FrameCount(published[c][i]) >= 1
                  /\ FrameCount(published[c][i]) <= MODBUS_MAX_REGISTERS_PER_QUERY

\* a read of more registers than the cap has published its two frames: the first
\* asks for the cap, the second for the remainder
C26_Witness ==
    \E c \in Calls :
        /\ args[c].op = "read"
        /\ args[c].b > MODBUS_MAX_REGISTERS_PER_QUERY
        /\ Len(published[c]) = 2
        /\ FrameCount(published[c][1]) = MODBUS_MAX_REGISTERS_PER_QUERY
        /\ FrameCount(published[c][2]) = args[c].b - MODBUS_MAX_REGISTERS_PER_QUERY

\* a request frame has been built by one of the two builders
Built == fn.applied /\ fn.name \in {"create_read", "create_write"}

\* the 6 content bytes the builder packs from its arguments
ContentOf(f) ==
    << MODBUS_DEVICE_ADDRESS,
       IF f.name = "create_read" THEN MODBUS_READ_REQUEST ELSE MODBUS_WRITE_REQUEST >>
    \o PackU16(f.in[1]) \o PackU16(f.in[2])

\* the frame the same builder makes of the same arguments with another id and filler
Rebuilt(f, id, rand) ==
    IF f.name = "create_read"
    THEN CreateMqttReadPacket(f.in[1], f.in[2], id, rand).packet
    ELSE CreateMqttWritePacket(f.in[1], f.in[2], id, rand).packet

\* C27: a request frame built for a read or a write is 16 bytes: the length 14 of
\* what follows, the id returned to the caller, 0x58 0xC9, the filler, the 6 content
\* bytes and the CRC of those 6 bytes, which is the same for every id and filler.
C27_RequestFrameLayout ==
    Built =>
        /\ Len(fn.out.packet) = 16
        /\ U16At(fn.out.packet, 0) = 14
        /\ U16At(fn.out.packet, 0) = Len(fn.out.packet) - 2
        /\ U16At(fn.out.packet, 2) = fn.out.req_id
        /\ fn.out.req_id = fn.in[3]
        /\ U8At(fn.out.packet, 4) = 88
        /\ U8At(fn.out.packet, 5) = 201
        /\ U16At(fn.out.packet, 6) = fn.in[4]
        /\ Slice(fn.out.packet, 8, 14) = ContentOf(fn)
        /\ U16At(fn.out.packet, 14) = computeCRC(ContentOf(fn))
        /\ \A id \in CodecIds, rand \in CodecFillers :
              Slice(Rebuilt(fn, id, rand), 8, 16) = Slice(fn.out.packet, 8, 16)

\* a write frame has been built with an id and a filler that differ from each other
\* and from the content bytes
C27_Witness ==
    /\ Built
    /\ fn.name = "create_write"
    /\ fn.in = << MODBUS_REG_APP_MODE, 1, 65535, 0 >>
    /\ Len(fn.out.packet) = 16

\* C30: the echo of the frame _create_mqtt_write_packet built for (register, value),
\* with any bytes at 4..7, is decoded by _parse_packet as the frame's id and value.
C30_WriteRoundTrip ==
    (fn.applied /\ fn.name = "write_round_trip") =>
        fn.out = Returned(fn.in[3], IntVal(fn.in[2]))

\* the echo of a write of 256, a value that changes with its byte order, has been
\* parsed with the highest id and all of bytes 4..7 set
C30_Witness ==
    /\ fn.applied
    /\ fn.name = "write_round_trip"
    /\ fn.in = << MODBUS_REG_APP_MODE, 256, 65535, 4660, << 255, 255, 255, 255 >> >>
    /\ fn.out.ok

\* the bytes a frame needs to hold its 10-byte header, the body its header
\* announces and the 2-byte CRC
DeclaredLen(frame) ==
    IF FrameKind(frame) = MODBUS_READ_REQUEST THEN 10 + 1 + U8At(frame, 10) + 2 ELSE 10 + 4 + 2

\* C28: an inbound buffer that ends before its header, its announced body or its
\* CRC is complete is rejected by the parser: the handler sets no slot and leaves
\* both maps as they are.
C28_TruncatedFrameRejected ==
    \A c \in Calls :
        \A i \in DOMAIN published[c] :
            \A how \in {"intact", "empty"} :
                /\ Len(DamagedAnswerTo(c, i, how)) = DeclaredLen(DamagedAnswerTo(c, i, how))
                /\ \A cut \in Truncations(DamagedAnswerTo(c, i, how)) :
                      /\ ~ParsedOf[cut].ok
                      /\ ReadResponsesAfter(cut) = read_responses
                      /\ WriteResponsesAfter(cut) = write_responses

\* a call waits on an unset slot that its answer would set, and the answer cut
\* inside its header, inside its body and inside its CRC is rejected
C28_Witness ==
    \E c \in Calls :
        \E i \in DOMAIN published[c] :
            /\ pc[c] = "sleep"
            /\ req_ids[c][i] \in DOMAIN OwnMap(c)
            /\ OwnMap(c)[req_ids[c][i]] = None
            /\ OwnMapAfter(c, AnswerTo(c, i)) # OwnMap(c)
            /\ ParsedOf[SubSeq(AnswerTo(c, i), 1, 9)].err = "struct.error"
            /\ ParsedOf[SubSeq(AnswerTo(c, i), 1, 12)].err = "struct.error"
            /\ ParsedOf[SubSeq(AnswerTo(c, i), 1, Len(AnswerTo(c, i)) - 1)].err = "struct.error"
            /\ OwnMapAfter(c, SubSeq(AnswerTo(c, i), 1, Len(AnswerTo(c, i)) - 1)) = OwnMap(c)

\* C29: within one read_registers or write_register call each request frame is
\* handed to the transport at most once: the frames published are the first planned
\* packets, each once and in order, a step publishes at most the next planned packet,
\* and a call that has ended, however it ended, publishes nothing more.
C29_NoRetry ==
    /\ [](\A c \in Calls :
            /\ Len(published[c]) <= Len(packets[c])
            /\ \A i \in DOMAIN published[c] :
                  /\ published[c][i] = packets[c][i].packet
                  /\ \A j \in DOMAIN published[c] :
                        i # j => published[c][i] # published[c][j])
    /\ [][\A c \in Calls :
            /\ pc[c] = "done" => published'[c] = published[c]
            /\ published'[c] # published[c] =>
                  /\ Len(published[c]) < Len(packets'[c])
                  /\ published'[c]
                        = Append(published[c], packets'[c][Len(published[c]) + 1].packet)]_vars

\* a read has returned after publishing its two frames, and the other call has
\* ended on a publishing failure or on the deadline after publishing its frame
C29_Witness ==
    \E c \in Calls, d \in Calls :
        /\ pc[c] = "done" /\ outcome[c] = "returned" /\ Len(published[c]) = 2
        /\ pc[d] = "done" /\ outcome[d] \in {"publish_error", "timeout"}
        /\ Len(published[d]) >= 1

CycleOver == coord.pc = "idle" /\ coord.cycles > 0

\* C32: inverter_info and battery_info are requested in every update cycle that
\* finds them None, and never again nor changed once they hold data;
\* battery_controller_data and realtime_data are requested in every cycle; at most
\* one read of the coordinator is in flight.
C32_CoordinatorCycle ==
    /\ [](/\ Cardinality(coord.in_flight) <= 1
          /\ CycleOver =>
                /\ coord.none_at_start \subseteq Range(coord.requested)
                /\ {"battery_controller_data", "realtime_data"} \subseteq Range(coord.requested))
    /\ [][\A f \in FetchedOnce :
            coord[f] # None =>
                /\ coord'[f] = coord[f]
                /\ coord'.pc # f]_vars

LegacyInFlight(q) == legacy.pc[q] \in {"publishing", "sleep"}

\* the ids query q has registered so far
LegacyRegistered(q) ==
    {legacy.packets[q][i].req_id : i \in DOMAIN legacy.published[q]}

\* the contents of the intact answers to the frames query q published
LegacyOwnPayloads(q) ==
    {LegacyParsedOf[LegacyInboundOf[legacy.published[q][i], "intact"]].content :
        i \in DOMAIN legacy.published[q]}

\* C33: in the legacy client a query that starts while another one, with other
\* ids, is in flight leaves that one's pending entries as they are, and the result
\* of a query is made of the payloads of its own chunks only.
C33_LegacyQueriesDoNotInterfere ==
    /\ [](\A q \in Calls :
            legacy.outcome[q] = "returned" =>
                /\ Len(legacy.parts[q]) = Len(legacy.packets[q])
                /\ Range(legacy.parts[q]) \subseteq LegacyOwnPayloads(q))
    /\ [][\A q \in Calls, p \in Calls :
            (/\ LegacyInFlight(p)
             /\ legacy.pc[q] = "idle" /\ legacy'.pc[q] # "idle"
             /\ LegacyIds(legacy', q) \cap LegacyRegistered(p) = {}) =>
                \A k \in LegacyRegistered(p) :
                    /\ k \in ODKeys(legacy'.responses)
                    /\ k \in ODKeys(legacy.responses) =>
                          ODGet(legacy'.responses, k) = ODGet(legacy.responses, k)]_vars

\* C34: in the legacy client an answer whose CRC field differs from the CRC computed
\* over its bytes is never stored as the response of a pending request: the
\* responses map stays as it is.
C34_LegacyBadCrcNotStored ==
    \A q \in Calls :
        \A i \in DOMAIN legacy.published[q] :
            /\ ~CrcFieldValid(LegacyInboundOf[legacy.published[q][i], "badcrc"])
            /\ LegacyResponsesAfter(legacy.responses,
                                    LegacyInboundOf[legacy.published[q][i], "badcrc"])
                  = legacy.responses

====
